---- MODULE Spec2Model ----
(***************************************************************************)
(* Model of validator_app.py: SpanishValidator.validate_text,              *)
(* format_text_with_highlights and the Streamlit script main().            *)
(*                                                                         *)
(* A Python str is a sequence of characters; a character is one of the     *)
(* atoms below.  "Id" stands for U+0130 (capital I with dot above), the    *)
(* one character whose str.lower() is two characters: "i" followed by      *)
(* "cd" = U+0307 (combining dot above), which is not matched by \w.        *)
(***************************************************************************)
EXTENDS Integers, Sequences, FiniteSets, TLC

VARIABLES
    cache,            \* st.cache_resource entry of load_spacy: None or a model instance
    loads,            \* number of spacy.load calls made by the process
    nlp,              \* validator.nlp of the current script run
    uploaded_file,    \* the file_uploader widget: None or a sequence of lines
    text_input,       \* the text_area widget
    button,           \* st.button("Validate Text") of the current script run
    vocabulary,       \* main's local vocabulary
    warning,          \* the st.warning shown by the current run, or None
    doc,              \* self.nlp(text) of the validation of the current run, or None
    result,           \* validate_text's return value in the current run, or None
    error_words,      \* argument of the last format_text_with_highlights call, or None
    highlighted_text  \* its return value, or None

vars == <<cache, loads, nlp, uploaded_file, text_input, button, vocabulary,
          warning, doc, result, error_words, highlighted_text>>

\* An optional value (a Python value that may be None) is the empty set for
\* None and the singleton of the value otherwise.
None == {}
Some(v) == {v}
Get(o) == CHOOSE v \in o : TRUE

\* ---------------------------------------------------------------- bounds
MaxLen == 3      \* longest text typed into the text area
MaxLoads == 3    \* cap on spacy.load calls

\* ------------------------------------------------------------ characters
Alphabet == {"a", "A", "1", ".", " ", "Id"}

IsDigit(c) == c = "1"
IsSpace(c) == c = " "
\* \w of a str pattern: alphanumerics and underscore
IsWordChar(c) == c \in {"a", "A", "1", "Id", "i"}

LowerChar(c) ==
    IF c = "A" THEN <<"a">>
    ELSE IF c = "Id" THEN <<"i", "cd">>
    ELSE <<c>>

RECURSIVE lower(_)
lower(s) == IF s = <<>> THEN <<>> ELSE LowerChar(Head(s)) \o lower(Tail(s))

RECURSIVE lstrip(_)
lstrip(s) == IF s # <<>> /\ IsSpace(Head(s)) THEN lstrip(Tail(s)) ELSE s

RECURSIVE rstrip(_)
rstrip(s) ==
    IF s # <<>> /\ IsSpace(s[Len(s)]) THEN rstrip(SubSeq(s, 1, Len(s) - 1)) ELSE s

strip(s) == rstrip(lstrip(s))

\* ------------------------------------------------- re, pattern \b\w+\b
\* last index of the maximal run of word characters that starts at index i
RunEnd(s, i) ==
    CHOOSE j \in i..Len(s) :
        /\ \A k \in i..j : IsWordChar(s[k])
        /\ (j = Len(s) \/ ~IsWordChar(s[j + 1]))

\* the matches from index pos on, left to right, with Python offsets
\* (match.start() is 0-based, match.end() is exclusive)
RECURSIVE scan(_, _)
scan(s, pos) ==
    IF pos > Len(s) THEN <<>>
    ELSE IF ~IsWordChar(s[pos]) THEN scan(s, pos + 1)
    ELSE LET e == RunEnd(s, pos)
         IN  <<[start |-> pos - 1, end |-> e]>> \o scan(s, e + 1)

finditer(s) == scan(s, 1)

\* text[a:b]
Slice(s, a, b) == SubSeq(s, a + 1, b)

group(s, m) == Slice(s, m.start, m.end)

findall(s) == LET ms == finditer(s) IN [k \in 1..Len(ms) |-> group(s, ms[k])]

Range(f) == {f[x] : x \in DOMAIN f}

\* ---------------------------------------------------- the spaCy pipeline
\* Token.like_num of the Spanish language data: decimal separators are
\* removed, and what is left must be a non-empty run of digits.
like_num(t) ==
    LET d == SelectSeq(t, LAMBDA c : c # ".")
    IN  d # <<>> /\ \A i \in 1..Len(d) : IsDigit(d[i])

\* a "." between two digits is a decimal point
DecimalPoint(s, i) ==
    /\ s[i] = "."
    /\ i > 1 /\ i < Len(s)
    /\ IsDigit(s[i - 1]) /\ IsDigit(s[i + 1])

\* the tokenizer always separates p from p+1: whitespace separates tokens,
\* and punctuation that is not a decimal point is a token of its own
ForcedCut(s, p) ==
    \/ IsSpace(s[p]) \/ IsSpace(s[p + 1])
    \/ (s[p] = "." /\ ~DecimalPoint(s, p))
    \/ (s[p + 1] = "." /\ ~DecimalPoint(s, p + 1))

\* the tokenizer never separates p from p+1: a run of digits is one token
NoCut(s, p) == IsDigit(s[p]) /\ IsDigit(s[p + 1])

\* the sets of token boundaries the tokenizer may choose for s
Cuts(s) ==
    LET P == 1..(Len(s) - 1)
        forced == {p \in P : ForcedCut(s, p)}
        free == {p \in P : ~ForcedCut(s, p) /\ ~NoCut(s, p)}
    IN  {forced \cup F : F \in SUBSET free}

RECURSIVE Segments(_, _, _)
Segments(s, C, from) ==
    IF from > Len(s) THEN <<>>
    ELSE LET e == CHOOSE j \in from..Len(s) :
                      /\ (j \in C \/ j = Len(s))
                      /\ \A k \in from..(j - 1) : k \notin C
         IN  <<SubSeq(s, from, e)>> \o Segments(s, C, e + 1)

IsLetter(c) == IsWordChar(c) /\ ~IsDigit(c)

\* the Doc objects self.nlp(text) may return: a tokenization of the text and
\* a part-of-speech tag for each token, both chosen by the statistical model.
\* Only a token with a letter is offered the tag PROPN: the lowercase text of
\* any other token is a number token's or is no word of the pattern \w+, so
\* its tag cannot change what validate_text returns.
nlp_call(text) ==
    UNION { LET toks == SelectSeq(Segments(text, C, 1), LAMBDA t : ~IsSpace(t[1]))
                named == {k \in 1..Len(toks) :
                             \E i \in 1..Len(toks[k]) : IsLetter(toks[k][i])}
            IN  { [k \in 1..Len(toks) |->
                      [text |-> toks[k],
                       pos_ |-> IF k \in P THEN "PROPN" ELSE "X",
                       like_num |-> like_num(toks[k])]]
                  : P \in SUBSET named }
            : C \in Cuts(text) }

\* ------------------------------------------------- collections.Counter
RECURSIVE Counter(_)
Counter(seq) ==
    IF seq = <<>> THEN [w \in {} |-> 0]
    ELSE LET c == Counter(SubSeq(seq, 1, Len(seq) - 1))
             w == seq[Len(seq)]
         IN  IF w \in DOMAIN c
             THEN [c EXCEPT ![w] = @ + 1]
             ELSE [x \in DOMAIN c \cup {w} |-> IF x = w THEN 1 ELSE c[x]]

\* ------------------------------------- SpanishValidator.validate_text
proper_nouns(d) == {lower(d[k].text) : k \in {j \in DOMAIN d : d[j].pos_ = "PROPN"}}

numbers(d) == {lower(d[k].text) : k \in {j \in DOMAIN d : d[j].like_num}}

non_compliant_words(text, vocab, d) ==
    SelectSeq(findall(lower(text)),
              LAMBDA word : /\ word \notin vocab
                            /\ word \notin proper_nouns(d)
                            /\ word \notin numbers(d))

\* a bug variant: the verdict looks at the words instead of the offenders
validate_text_AllWords(text, vocab, d) ==
    [compliant |-> Len(findall(lower(text))) = 0,
     errors |-> Counter(non_compliant_words(text, vocab, d))]

validate_text(text, vocab, d) ==
    LET ncw == non_compliant_words(text, vocab, d)
    IN  [compliant |-> Len(ncw) = 0, errors |-> Counter(ncw)]

\* ------------------------------------------ format_text_with_highlights
\* the two pieces of the f-string around {word}, each kept as one element
OPEN == "<span style=\"color: red\">"
CLOSE == "</span>"

RECURSIVE join(_)
join(parts) == IF parts = <<>> THEN <<>> ELSE Head(parts) \o join(Tail(parts))

\* a bug variant: the word is looked up without lowercasing it
RECURSIVE format_loop_NoLower(_, _, _, _, _)
format_loop_NoLower(text, ewl, ms, k, current_pos) ==
    IF k > Len(ms) THEN <<Slice(text, current_pos, Len(text))>>
    ELSE LET word == group(text, ms[k])
         IN  <<Slice(text, current_pos, ms[k].start),
               IF word \in ewl THEN <<OPEN>> \o word \o <<CLOSE>> ELSE word>>
             \o format_loop_NoLower(text, ewl, ms, k + 1, ms[k].end)

\* a bug variant: the text after the last word is not appended
RECURSIVE format_loop_NoTail(_, _, _, _, _)
format_loop_NoTail(text, ewl, ms, k, current_pos) ==
    IF k > Len(ms) THEN <<>>
    ELSE LET word == group(text, ms[k])
         IN  <<Slice(text, current_pos, ms[k].start),
               IF lower(word) \in ewl THEN <<OPEN>> \o word \o <<CLOSE>> ELSE word>>
             \o format_loop_NoTail(text, ewl, ms, k + 1, ms[k].end)

\* a bug variant: current_pos is set to match.start() instead of match.end()
RECURSIVE format_loop_StartPos(_, _, _, _, _)
format_loop_StartPos(text, ewl, ms, k, current_pos) ==
    IF k > Len(ms) THEN <<Slice(text, current_pos, Len(text))>>
    ELSE LET word == group(text, ms[k])
         IN  <<Slice(text, current_pos, ms[k].start),
               IF lower(word) \in ewl THEN <<OPEN>> \o word \o <<CLOSE>> ELSE word>>
             \o format_loop_StartPos(text, ewl, ms, k + 1, ms[k].start)

\* the loop body for the matches ms[k..], with current_pos on entry
RECURSIVE format_loop(_, _, _, _, _)
format_loop(text, ewl, ms, k, current_pos) ==
    IF k > Len(ms) THEN <<Slice(text, current_pos, Len(text))>>
    ELSE LET word == group(text, ms[k])
         IN  <<Slice(text, current_pos, ms[k].start),
               IF lower(word) \in ewl THEN <<OPEN>> \o word \o <<CLOSE>> ELSE word>>
             \o format_loop(text, ewl, ms, k + 1, ms[k].end)

format_text_with_highlights(text, words) ==
    LET error_words_lower == {lower(word) : word \in words}
    IN  join(format_loop(text, error_words_lower, finditer(text), 1, 0))

\* ------------------------------------------------------------- main
\* load_spacy under @st.cache_resource: the first call runs spacy.load and
\* stores the instance, later calls return the stored instance
load_spacy_Uncached(c, n) == [nlp |-> Some(n + 1), cache |-> c, loads |-> n + 1]

load_spacy(c, n) ==
    IF c = None
    THEN [nlp |-> Some(n + 1), cache |-> Some(n + 1), loads |-> n + 1]
    ELSE [nlp |-> c, cache |-> c, loads |-> n]

\* the lines of the uploaded file, without their line terminators
read_vocabulary_NoLower(file) ==
    {strip(file[k]) : k \in {j \in DOMAIN file : strip(file[j]) # <<>>}}

read_vocabulary(file) ==
    {lower(strip(file[k])) : k \in {j \in DOMAIN file : strip(file[j]) # <<>>}}

\* the branch taken under "if st.button(...)"
validate_branch_NoStrip(vocab, text) ==
    IF vocab = {} THEN "warn_vocabulary"
    ELSE IF text = <<>> THEN "warn_text"
    ELSE "validate"

validate_branch(vocab, text) ==
    IF vocab = {} THEN "warn_vocabulary"
    ELSE IF strip(text) = <<>> THEN "warn_text"
    ELSE "validate"

\* the vocabulary files a user uploads
VocabFiles ==
    { << <<" ">> >>,
      << <<" ", "A", " ">>, <<>> >>,
      << <<"1">>, <<"A", "a">> >>,
      << <<"Id">> >> }

\* The pipeline is a function of the text: the Doc of the text processed by
\* the run before is the Doc it gets again.
nlp_docs(text) == IF doc # None /\ text = text_input THEN doc ELSE nlp_call(text)

\* one run of the script, with the widgets holding file and text
main(file, text, clicked) ==
    /\ loads < MaxLoads \/ cache # None
    /\ LET ld == load_spacy(cache, loads)
       IN  /\ nlp' = ld.nlp
           /\ cache' = ld.cache
           /\ loads' = ld.loads
    /\ uploaded_file' = file
    /\ text_input' = text
    /\ button' = clicked
    /\ LET vocab == IF file # None THEN read_vocabulary(Get(file)) ELSE {}
           branch == IF clicked THEN validate_branch(vocab, text) ELSE "idle"
       IN  /\ vocabulary' = vocab
           /\ warning' = IF branch \in {"warn_vocabulary", "warn_text"}
                         THEN Some(branch) ELSE None
           /\ IF branch = "validate"
              THEN \E d \in nlp_docs(text) :
                     LET r == validate_text(text, vocab, d)
                     IN  /\ doc' = Some(d)
                         /\ result' = Some(r)
                         /\ error_words' = Some(DOMAIN r.errors)
                         /\ highlighted_text' =
                              Some(format_text_with_highlights(text, DOMAIN r.errors))
              ELSE /\ doc' = None
                   /\ result' = None
                   /\ error_words' = None
                   /\ highlighted_text' = None

Init ==
    /\ cache = None
    /\ loads = 0
    /\ nlp = None
    /\ uploaded_file = None
    /\ text_input = <<>>
    /\ button = FALSE
    /\ vocabulary = {}
    /\ warning = None
    /\ doc = None
    /\ result = None
    /\ error_words = None
    /\ highlighted_text = None

UploadFile ==
    \E f \in VocabFiles : Some(f) # uploaded_file /\ main(Some(f), text_input, FALSE)

RemoveFile == uploaded_file # None /\ main(None, text_input, FALSE)

TypeChar ==
    \E c \in Alphabet :
        /\ Len(text_input) < MaxLen
        /\ main(uploaded_file, Append(text_input, c), FALSE)

ClearText == text_input # <<>> /\ main(uploaded_file, <<>>, FALSE)

ClickValidate == \E clicked \in {TRUE} : main(uploaded_file, text_input, clicked)

Next == UploadFile \/ RemoveFile \/ TypeChar \/ ClearText \/ ClickValidate

Spec == Init /\ [][Next]_vars

\* ------------------------------ the highlighter called on any word set
FlagWords == { <<"a">>, <<"A">>, <<"1">>, <<"Id">>, <<"i", "cd">>, <<"a", "A">> }

HType ==
    \E c \in Alphabet :
        /\ Len(text_input) < MaxLen
        /\ text_input' = Append(text_input, c)
        /\ error_words' = None
        /\ highlighted_text' = None
        /\ UNCHANGED <<cache, loads, nlp, uploaded_file, button, vocabulary,
                       warning, doc, result>>

HCall ==
    \E F \in SUBSET FlagWords :
        /\ highlighted_text = None
        /\ error_words' = Some(F)
        /\ highlighted_text' = Some(format_text_with_highlights(text_input, F))
        /\ UNCHANGED <<cache, loads, nlp, uploaded_file, text_input, button,
                       vocabulary, warning, doc, result>>

HNext == HType \/ HCall

HSpec == Init /\ [][HNext]_vars

\* ------------------------------------------------------------ properties
Validated == result # None /\ doc # None /\ highlighted_text # None

errors == Get(result).errors

AllDigits(w) == w # <<>> /\ \A i \in 1..Len(w) : IsDigit(w[i])

IsMarkup(x) == x = OPEN \/ x = CLOSE

StripMarkup(out) == SelectSeq(out, LAMBDA x : ~IsMarkup(x))

CountOf(out, x) == Cardinality({i \in 1..Len(out) : out[i] = x})

\* for each element of out that is not markup, in order, the number of spans
\* that are open around it
RECURSIVE MarkupDepth(_, _)
MarkupDepth(out, d) ==
    IF out = <<>> THEN <<>>
    ELSE IF Head(out) = OPEN THEN MarkupDepth(Tail(out), d + 1)
    ELSE IF Head(out) = CLOSE THEN MarkupDepth(Tail(out), d - 1)
    ELSE <<d>> \o MarkupDepth(Tail(out), d)

RECURSIVE SumCounts(_)
SumCounts(c) ==
    IF DOMAIN c = {} THEN 0
    ELSE LET w == CHOOSE x \in DOMAIN c : TRUE
         IN  c[w] + SumCounts([x \in DOMAIN c \ {w} |-> c[x]])

\* C1: the result of validate_text has compliant = TRUE exactly when its
\* errors mapping has no key.
C1_CompliantIffNoErrors ==
    result # None => (Get(result).compliant <=> DOMAIN errors = {})

\* a text with words, all of them acceptable, was validated
C1_Witness ==
    /\ Validated
    /\ Get(result).compliant
    /\ Len(findall(text_input)) > 1

\* C2: a word of the vocabulary file, in whatever letter case it is written
\* there and in the text, is never a key of errors.
C2_VocabularyWordNeverError ==
    result # None /\ uploaded_file # None =>
        \A k \in DOMAIN Get(uploaded_file) :
            LET w == strip(Get(uploaded_file)[k])
            IN  \A t \in Range(findall(text_input)) :
                    lower(t) = lower(w) => /\ lower(t) \notin DOMAIN errors
                                           /\ t \notin DOMAIN errors
                                           /\ w \notin DOMAIN errors

\* the text holds a vocabulary word in another letter case than the file,
\* next to a word that is an error
C2_Witness ==
    /\ Validated
    /\ DOMAIN errors # {}
    /\ \E k \in DOMAIN Get(uploaded_file) :
         \E t \in Range(findall(text_input)) :
            /\ lower(t) = lower(strip(Get(uploaded_file)[k]))
            /\ t # strip(Get(uploaded_file)[k])

\* C3: a word token of the text that consists of digits only is never a key
\* of errors, whatever token boundaries the tagger chose.
C3_NumericTokenNeverError ==
    result # None =>
        \A t \in Range(findall(text_input)) : AllDigits(t) => t \notin DOMAIN errors

\* C4: the keys of errors are exactly the lowercase forms of the text's word
\* tokens that are in none of the vocabulary, the proper-noun set and the
\* numeral set, and each count is the number of word tokens of the text whose
\* lowercase form is the key.
C4_ErrorsAreTheOffendingTokens ==
    Validated =>
        LET toks == findall(text_input)
            exempt == vocabulary \cup proper_nouns(Get(doc)) \cup numbers(Get(doc))
            keys == {lower(toks[k]) : k \in 1..Len(toks)} \ exempt
        IN  /\ DOMAIN errors = keys
            /\ \A w \in keys :
                 errors[w] = Cardinality({k \in 1..Len(toks) : lower(toks[k]) = w})

\* C5: in the highlighted text of a validation, a word token of the text is
\* wrapped in markup if and only if its lowercase form is a key of errors, and
\* nothing else is inside markup.
C5_WrappedIffFlagged ==
    Validated =>
        LET out == Get(highlighted_text)
            ms == finditer(text_input)
            flagged == {k \in 1..Len(ms) :
                           lower(group(text_input, ms[k])) \in DOMAIN errors}
            depth == MarkupDepth(out, 0)
        IN  /\ Len(depth) = Len(text_input)
            /\ \A i \in 1..Len(depth) :
                 depth[i] = IF \E k \in flagged : ms[k].start < i /\ i <= ms[k].end
                            THEN 1 ELSE 0
            /\ CountOf(out, OPEN) = Cardinality(flagged)
            /\ CountOf(out, CLOSE) = Cardinality(flagged)

\* a flagged word written with a capital is wrapped, another word is not
C5_Witness ==
    /\ Validated
    /\ \E t \in Range(findall(text_input)) : lower(t) # t /\ lower(t) \in DOMAIN errors
    /\ \E t \in Range(findall(text_input)) : lower(t) \notin DOMAIN errors

\* C6: deleting the inserted markup from the result of
\* format_text_with_highlights(T, F) gives T.
C6_TextPreserved ==
    highlighted_text # None => StripMarkup(Get(highlighted_text)) = text_input

\* a text that starts and ends outside a word, with a wrapped word in it
C6_Witness ==
    /\ highlighted_text # None
    /\ CountOf(Get(highlighted_text), OPEN) > 0
    /\ text_input # <<>>
    /\ ~IsWordChar(text_input[1])
    /\ ~IsWordChar(text_input[Len(text_input)])

\* C7: format_text_with_highlights(T, {}) is T.
C7_NoFlagsIdentity ==
    highlighted_text # None /\ error_words = Some({}) =>
        Get(highlighted_text) = text_input

\* the highlighter ran with no flagged word on words and other characters
C7_Witness ==
    /\ highlighted_text # None
    /\ error_words = Some({})
    /\ Len(findall(text_input)) > 1

\* C8: a click on Validate with an empty vocabulary or a blank text shows a
\* warning and validates nothing; a validation has a non-empty vocabulary and
\* a text with a character that is not whitespace.
C8_GuardsBlockValidation ==
    /\ button /\ (vocabulary = {} \/ strip(text_input) = <<>>) =>
           /\ warning # None
           /\ doc = None /\ result = None
           /\ error_words = None /\ highlighted_text = None
    /\ (doc # None \/ result # None \/ highlighted_text # None) =>
           /\ button
           /\ warning = None
           /\ vocabulary # {}
           /\ \E i \in 1..Len(text_input) : ~IsSpace(text_input[i])

\* Validate was clicked on a text of whitespace with a vocabulary loaded
C8_Witness ==
    /\ button
    /\ vocabulary # {}
    /\ text_input # <<>>
    /\ warning = Some("warn_text")
    /\ result = None

\* C9: over any sequence of script runs the model is loaded at most once, and
\* once it is loaded every run uses that instance and loads nothing.
C9_ModelLoadedOnce ==
    [][ /\ loads' <= 1
        /\ cache # None => /\ cache' = cache
                           /\ loads' = loads
                           /\ nlp' = cache ]_vars

\* a validation ran on the instance loaded by an earlier run
C9_Witness ==
    /\ Validated
    /\ loads = 1
    /\ cache # None
    /\ nlp = cache

\* C10: the number of tokens wrapped in the highlighted text is the sum of
\* the counts in errors.
C10_WrappedCountIsErrorTotal ==
    Validated => CountOf(Get(highlighted_text), OPEN) = SumCounts(errors)

====
